---- MODULE Spec2Model ----
(***************************************************************************)
(* Model of stimela/recipe.py: the Recipe job list, the resume file and    *)
(* Recipe.run (step resolution, resume, redo, the execution loop and the   *)
(* failure capture).  Strings are sequences of one-character strings, so   *)
(* that label.split('::')[0] and the default label are computed, not       *)
(* assumed.                                                                *)
(***************************************************************************)
EXTENDS Integers, Sequences, FiniteSets, TLC

VARIABLES JOB_TYPE,   \* Recipe.JOB_TYPE, the backend kind of the container jobs
          jobs,       \* Recipe.jobs
          completed,  \* Recipe.completed
          failed,     \* Recipe.failed
          remaining,  \* Recipe.remaining
          file,       \* content of Recipe.resume_file on disk, or NoFile
          pc,         \* "idle", "running" inside the loop of Recipe.run, or
                      \* "job" inside the run method of the job at the index
          rjobs,      \* the local list `jobs` of a running run(): (step, job) pairs
          idx,        \* the loop index i of a running run()
          recipe,     \* the steps of the local record `recipe` of a running run()
          executed,   \* history: the (step, job) pairs the last call executed
          call,       \* history: the arguments, when the last call is a run()
          file0,      \* history: the resume file when that run() started
          last,       \* the last call (init, add, run) and its outcome
          nRuns,      \* history: the number of run() calls so far
          stimela_context, \* Recipe.stimela_context: the _STIMELA_INPUT,
                      \* _STIMELA_OUTPUT and _STIMELA_MSDIR globals of the script
          cabdef,     \* the arguments add() got and the directories of the
                      \* CabDefinition it built, for the last cab job built
          stopped,    \* history: the steps whose job the last run() stopped
          held,       \* the PipelineException of the failed run before the
                      \* last failed one, as its holder reads it, or NoExc
          singularity_image_dir, \* Recipe.singularity_image_dir, or NoDir
          dirs        \* the file system: the output directories that exist

vars == <<JOB_TYPE, jobs, completed, failed, remaining, file, pc, rjobs,
          idx, recipe, executed, call, file0, last, nRuns, stimela_context,
          cabdef, stopped, held, singularity_image_dir, dirs>>

----------------------------------------------------------------------------
(* Bounds of the model *)

\* largest number of jobs a Recipe instance is given by add()
MaxJobs == 3

\* longest list passed as the steps argument of run()
MaxSteps == 2

\* largest number of run() calls in one behaviour
MaxRuns == 2

----------------------------------------------------------------------------
(* Values *)

\* the file system has no resume file
NoFile == [exists |-> FALSE, steps |-> <<>>]

ContainerTypes == {"docker", "singularity", "udocker", "podman"}

\* the JOB_TYPE arguments passed to Recipe(): docker passes the job label
\* to its container, singularity (like udocker and podman) does not
Backends == {"docker", "singularity"}

\* the token Python's id()/time.time() contribute to a generated name
IdToken == <<"#">>

\* names passed to add()
Names == {<<"s">>}

\* names with a character outside [A-Za-z0-9_] passed to add()
BadNames == {<<"s", "-">>}

\* labels passed to add() (an empty label would get the default label)
LabelArgs == {<<"A">>, <<"B", ":", ":", "x">>}

\* no directory: the argument is None, the global is not defined
NoDir == ""

\* Recipe.ms_dir
ms_dir == "ms"

\* the input and msdir arguments passed to add(): None or a directory
DirArgs == {NoDir, "arg"}

\* the output arguments passed to add(): None or a directory
OutArgs == {NoDir, "out"}

\* the output argument the scripts of the model pass to add()
OutArg == "out"

\* the singularity_image_dir arguments passed to Recipe(): None or a directory
ImageDirs == {NoDir, "simg"}

\* the output directories of a working directory in which no job was added
\* yet: the directory the _STIMELA_* globals can name
FreshDirs == {"/ctx"}

\* the script defines none of the _STIMELA_* globals
NoContext == [input |-> NoDir, output |-> NoDir, msdir |-> NoDir]

\* the _STIMELA_* globals a script can define
Contexts == [input : {NoDir, "/ctx"}, output : {NoDir, "/ctx"}, msdir : {NoDir, "/ctx"}]

\* no cab job has been built
NoCab == [input |-> NoDir, output |-> NoDir, msdir |-> NoDir,
          indir |-> NoDir, outdir |-> NoDir, msfile |-> NoDir]

\* labels a caller can list in steps
StepLabels == {<<"A">>, <<"B">>}

\* integers a caller can list in steps
StepNumbers == 0 .. MaxJobs

----------------------------------------------------------------------------
(* String helpers *)

\* re.findall('\W', name): the characters of name that are not word characters
WordChars == {"s", "t", "A", "B", "x", "Z", "_", "0"}

Offenders(name) == SelectSeq(name, LAMBDA c : c \notin WordChars)

\* index of the first "::" in s at or after i, 0 when there is none
RECURSIVE FindSep(_, _)
FindSep(s, i) ==
    IF i + 1 > Len(s) THEN 0
    ELSE IF s[i] = ":" /\ s[i + 1] = ":" THEN i
    ELSE FindSep(s, i + 1)

\* SplitFirst with the split left out: the whole label
SplitFirst_Whole(s) == s

\* label.split('::')[0]
SplitFirst(s) ==
    LET p == FindSep(s, 1)
    IN  IF p = 0 THEN s ELSE SubSeq(s, 1, p - 1)

\* Python list indexing seq[i] on a list of length n: the 1-based position
\* it reads (negative i counts from the end), 0 when it raises IndexError
PyIndex(n, i) ==
    IF i >= 0 THEN (IF i < n THEN i + 1 ELSE 0)
    ELSE (IF -i <= n THEN n + i + 1 ELSE 0)

\* list.index(x) + 1: first 1-based position of x in seq, 0 on ValueError
RECURSIVE IndexOf(_, _, _)
IndexOf(seq, x, i) ==
    IF i > Len(seq) THEN 0
    ELSE IF seq[i] = x THEN i
    ELSE IndexOf(seq, x, i + 1)

\* Python's `a or b` on directory strings
OrElse(a, b) == IF a # NoDir THEN a ELSE b

\* os.path.abspath on the directories of the model
AbsPath(d) == IF d = "/ctx" THEN d ELSE "/cwd/" \o d

----------------------------------------------------------------------------
(* StimelaJob *)

\* Recipe.failed before any failure
None == [name |-> <<>>, label |-> <<>>, jtype |-> "None",
         job |-> [name |-> <<>>, image |-> "", label |-> <<>>, function |-> ""]]

\* StimelaJob.__init__: label or '{0}_{1}'.format(name, id(name))
StimelaJob(name, label, jtype) ==
    [name  |-> name,
     label |-> IF label # <<>> THEN label ELSE name \o <<"_">> \o IdToken,
     jtype |-> jtype,
     job   |-> None.job]

\* the container name built by the *_job methods: '{0}-{1}{2}'
ContName(name) == name \o <<"-">> \o IdToken

\* StimelaJob.docker_job: the container is given label=self.label and the
\* image build_label + '_' + image
docker_job(job, image) ==
    [job EXCEPT !.job = [name |-> ContName(job.name), image |-> "user_" \o image,
                         label |-> job.label, function |-> ""]]

\* StimelaJob.singularity_job (like podman_job and udocker_job): the
\* container is built without a label; its image is the file
\* '{0:s}/{1:s}_{2:s}.img' of singularity_image_dir, the base and the tag of
\* the cab definition
singularity_job(job, image, image_dir) ==
    [job EXCEPT !.job = [name |-> ContName(job.name),
                         image |-> image_dir \o "/" \o image \o "_tag.img",
                         label |-> <<>>, function |-> ""]]

\* StimelaJob.python_job
python_job(job, function) ==
    [job EXCEPT !.job = [name |-> <<>>, image |-> "", label |-> <<>>,
                         function |-> function]]

\* the directories the *_job methods resolve from the script context and
\* their arguments, before they build the CabDefinition
JobDirs(ctx, input, output, msdir) ==
    [input  |-> OrElse(ctx.input, input),
     output |-> OrElse(ctx.output, output),
     msdir  |-> OrElse(ctx.msdir, msdir)]

\* cab.CabDefinition(indir=input, outdir=output, msdir=msdir, ...) as the
\* *_job methods call it; docker_job makes output absolute first
CabDefinition(ctx, jtype, input, output, msdir) ==
    LET d == JobDirs(ctx, input, output, msdir)
    IN  [input |-> input, output |-> output, msdir |-> msdir,
         indir |-> d.input,
         outdir |-> IF jtype = "docker" THEN AbsPath(d.output) ELSE d.output,
         msfile |-> d.msdir]

\* the finally clause of the loop of run(): the steps stopped so far, after
\* the job of step has run and left its created flag
Finally(st, job, step, created) ==
    IF job.jtype = "singularity" /\ created THEN Append(st, step) ELSE st

----------------------------------------------------------------------------
(* Step records *)

\* the step Recipe.log2recipe builds for a job
StepOf(job, num, status) ==
    IF job.jtype \in ContainerTypes
    THEN [name |-> job.job.name, number |-> num, cab |-> job.job.image,
          label |-> job.job.label, status |-> status, jtype |-> "docker",
          function |-> ""]
    ELSE [name |-> job.name, number |-> num, cab |-> "",
          label |-> job.label, status |-> status, jtype |-> "function",
          function |-> job.job.function]

\* Recipe.log2recipe: recipe['steps'].append(step)
log2recipe(job, rec, num, status) ==
    [rec EXCEPT !.steps = Append(@, StepOf(job, num, status))]

\* the job run(redo=...) rebuilds from a stored step
RedoJob(step) ==
    IF step.jtype = "docker"
    THEN [StimelaJob(step.name, step.label, "docker") EXCEPT
              !.job = [name |-> step.name, image |-> step.cab,
                       label |-> step.label, function |-> ""]]
    ELSE python_job(StimelaJob(step.name, step.label, "function"), step.function)

----------------------------------------------------------------------------
(* The steps argument of run() *)

NoSteps == [kind |-> "none", ints |-> <<>>, labels |-> <<>>]

IntSteps(seq) == [kind |-> "ints", ints |-> seq, labels |-> <<>>]

LabelSteps(seq) == [kind |-> "labels", ints |-> <<>>, labels |-> seq]

SeqsUpTo(S, n) == UNION {[1 .. m -> S] : m \in 0 .. n}

\* the steps arguments the model passes to run(): None, a list of integers
\* (the empty list included) or a list of label strings
StepArgs ==
    {NoSteps}
    \cup {IntSteps(q) : q \in SeqsUpTo(StepNumbers, MaxSteps)}
    \cup {LabelSteps(q) : q \in SeqsUpTo(StepLabels, MaxSteps) \ {<<>>}}

\* the steps arguments the model combines with resume and redo: None, one
\* position or one label
ModeStepArgs ==
    {NoSteps}
    \cup {IntSteps(<<n>>) : n \in 1 .. MaxJobs}
    \cup {LabelSteps(<<l>>) : l \in StepLabels}

----------------------------------------------------------------------------
(* Recipe.run: step resolution *)

\* outcome of a phase of run(): type "go" to continue, else the error raised
Outcome(type, label) == [type |-> type, label |-> label]

\* the scan of the persisted steps of run(resume=True): completed steps are
\* kept in the record, the others are checked against the live job list
RECURSIVE ResumeScan(_, _, _, _)
ResumeScan(steps_, js, kept, nums) ==
    IF steps_ = <<>>
    THEN [out |-> Outcome("go", <<>>), kept |-> kept, nums |-> nums]
    ELSE LET step == Head(steps_)
             p == PyIndex(Len(js), step.number - 1)
         IN  IF step.status = "completed"
             THEN ResumeScan(Tail(steps_), js, Append(kept, step), nums)
             ELSE IF p = 0
             THEN [out |-> Outcome("IndexError", <<>>), kept |-> kept, nums |-> nums]
             ELSE IF step.label = js[p].label
             THEN ResumeScan(Tail(steps_), js, kept, Append(nums, step.number))
             ELSE [out |-> Outcome("StimelaRecipeExecutionError", step.label),
                   kept |-> kept, nums |-> nums]

\* ResumeSteps without the handler of the missing file: an absent file reads
\* as an empty record
ResumeSteps_NoCheck(f, js) ==
    LET r == ResumeScan(f.steps, js, <<>>, <<>>)
    IN  IF r.out.type = "go" /\ r.nums = <<>>
        THEN [r EXCEPT !.out = Outcome("SystemExit", <<>>)]
        ELSE r

\* ResumeSteps without the exit when nothing is left to resume
ResumeSteps_NoExit(f, js) ==
    IF ~f.exists
    THEN [out |-> Outcome("StimelaRecipeExecutionError", <<>>),
          kept |-> <<>>, nums |-> <<>>]
    ELSE ResumeScan(f.steps, js, <<>>, <<>>)

\* the resume branch of run(): the record to continue and the steps to run
ResumeSteps(f, js) ==
    IF ~f.exists
    THEN [out |-> Outcome("StimelaRecipeExecutionError", <<>>),
          kept |-> <<>>, nums |-> <<>>]
    ELSE LET r == ResumeScan(f.steps, js, <<>>, <<>>)
         IN  IF r.out.type = "go" /\ r.nums = <<>>
             THEN [r EXCEPT !.out = Outcome("SystemExit", <<>>)]
             ELSE r

\* LabelScan that skips a label no job has instead of raising
RECURSIVE LabelScan_Skip(_, _, _)
LabelScan_Skip(steps, labels, nums) ==
    IF steps = <<>>
    THEN [out |-> Outcome("go", <<>>), nums |-> nums]
    ELSE LET p == IndexOf(labels, Head(steps), 1)
         IN  IF p = 0
             THEN LabelScan_Skip(Tail(steps), labels, nums)
             ELSE LabelScan_Skip(Tail(steps), labels, Append(nums, p))

\* resolution of a list of label strings against the job labels
RECURSIVE LabelScan(_, _, _)
LabelScan(steps, labels, nums) ==
    IF steps = <<>>
    THEN [out |-> Outcome("go", <<>>), nums |-> nums]
    ELSE LET p == IndexOf(labels, Head(steps), 1)
         IN  IF p = 0
             THEN [out |-> Outcome("StimelaCabParameterError", Head(steps)),
                   nums |-> nums]
             ELSE LabelScan(Tail(steps), labels, Append(nums, p))

\* StepNumbersOf with range(1, len(self.jobs)) for the default: the last
\* job is left out
StepNumbersOf_Short(steps, js) ==
    IF steps.kind = "none"
    THEN [out |-> Outcome("go", <<>>), nums |-> [i \in 1 .. (Len(js) - 1) |-> i]]
    ELSE IF steps.kind = "ints"
    THEN IF steps.ints = <<>>
         THEN [out |-> Outcome("IndexError", <<>>), nums |-> <<>>]
         ELSE [out |-> Outcome("go", <<>>), nums |-> steps.ints]
    ELSE LabelScan(steps.labels,
                   [i \in 1 .. Len(js) |-> SplitFirst(js[i].label)], <<>>)

\* the step numbers run() derives from its steps argument
StepNumbersOf(steps, js) ==
    IF steps.kind = "none"
    THEN [out |-> Outcome("go", <<>>), nums |-> [i \in 1 .. Len(js) |-> i]]
    ELSE IF steps.kind = "ints"
    THEN IF steps.ints = <<>>
         THEN [out |-> Outcome("IndexError", <<>>), nums |-> <<>>]
         ELSE [out |-> Outcome("go", <<>>), nums |-> steps.ints]
    ELSE LabelScan(steps.labels,
                   [i \in 1 .. Len(js) |-> SplitFirst(js[i].label)], <<>>)

\* JobPairs with self.jobs[step] for self.jobs[step-1]
JobPairs_NoOffset(nums, js) ==
    IF \E i \in 1 .. Len(nums) : PyIndex(Len(js), nums[i]) = 0
    THEN [out |-> Outcome("IndexError", <<>>), pairs |-> <<>>]
    ELSE [out |-> Outcome("go", <<>>),
          pairs |-> [i \in 1 .. Len(nums) |->
                        [step |-> nums[i],
                         job |-> js[PyIndex(Len(js), nums[i])]]]]

\* jobs = [(step, self.jobs[step-1]) for step in steps]
JobPairs(nums, js) ==
    IF \E i \in 1 .. Len(nums) : PyIndex(Len(js), nums[i] - 1) = 0
    THEN [out |-> Outcome("IndexError", <<>>), pairs |-> <<>>]
    ELSE [out |-> Outcome("go", <<>>),
          pairs |-> [i \in 1 .. Len(nums) |->
                        [step |-> nums[i],
                         job |-> js[PyIndex(Len(js), nums[i] - 1)]]]]

\* everything run(steps, resume, redo) does before its loop: the outcome,
\* the job list it leaves in self.jobs, the record and the (step, job) pairs
Resolve(steps, resume, redo, f, js) ==
    LET stop(o, j) == [out |-> o, jobs |-> j, steps |-> <<>>, pairs |-> <<>>]
        rest(st, j, kept) ==
            LET n == StepNumbersOf(st, j)
                pr == JobPairs(n.nums, j)
            IN  IF n.out.type # "go" THEN stop(n.out, j)
                ELSE IF pr.out.type # "go" THEN stop(pr.out, j)
                ELSE [out |-> pr.out, jobs |-> j, steps |-> kept,
                      pairs |-> pr.pairs]
    IN  IF redo
        THEN IF ~f.exists
             THEN stop(Outcome("IOError", <<>>), js)
             ELSE rest(steps, [i \in 1 .. Len(f.steps) |-> RedoJob(f.steps[i])],
                       f.steps)
        ELSE IF resume
        THEN LET r == ResumeSteps(f, js)
             IN  IF r.out.type # "go" THEN stop(r.out, js)
                 ELSE rest(IntSteps(r.nums), js, r.kept)
        ELSE rest(steps, js, <<>>)

----------------------------------------------------------------------------
(* Outcomes of add() and run() as the caller sees them *)

Result(op, type, label, c, f, r) ==
    [op |-> op, type |-> type, label |-> label,
     completed |-> c, failed |-> f, remaining |-> r]

\* a call that returned, or raised an error that is not a PipelineException
Plain(op, type, label) == Result(op, type, label, <<>>, None, <<>>)

NoCall == [steps |-> NoSteps, resume |-> FALSE, redo |-> FALSE]

\* no PipelineException of an earlier failed run
NoExc == [exists |-> FALSE, completed |-> <<>>, failed |-> None, remaining |-> <<>>]

----------------------------------------------------------------------------
(* Recipe.__init__ *)

\* Recipe.__init__ in a script with any of the _STIMELA_* globals
InitAny ==
    /\ singularity_image_dir \in ImageDirs
    /\ JOB_TYPE \in IF singularity_image_dir # NoDir THEN {"singularity"}
                    ELSE Backends
    /\ jobs = <<>>
    /\ completed = <<>>
    /\ failed = None
    /\ remaining = <<>>
    /\ file = NoFile
    /\ pc = "idle"
    /\ rjobs = <<>>
    /\ idx = 0
    /\ recipe = <<>>
    /\ executed = <<>>
    /\ call = NoCall
    /\ file0 = NoFile
    /\ last = Plain("init", "ok", <<>>)
    /\ nRuns = 0
    /\ stimela_context \in Contexts
    /\ cabdef = NoCab
    /\ stopped = <<>>
    /\ held = NoExc
    /\ dirs \in {FreshDirs, FreshDirs \cup {AbsPath(OutArg)}}

\* Recipe.__init__ in a script that defines none of them, started in a
\* working directory without the output directory
Init == InitAny /\ stimela_context = NoContext /\ dirs = FreshDirs

\* a new Recipe instance of the same name (a new invocation of the script);
\* the resume file of the previous instance stays on disk
NewRecipe ==
    /\ pc = "idle"
    /\ last.op # "init"
    /\ jobs' = <<>>
    /\ completed' = <<>>
    /\ failed' = None
    /\ remaining' = <<>>
    /\ last' = Plain("init", "ok", <<>>)
    /\ executed' = <<>>
    /\ call' = NoCall
    /\ file0' = NoFile
    /\ cabdef' = NoCab
    /\ stopped' = <<>>
    /\ held' = NoExc
    /\ UNCHANGED <<nRuns, JOB_TYPE, singularity_image_dir, file, pc, rjobs,
                   idx, recipe, stimela_context, dirs>>

----------------------------------------------------------------------------
(* Recipe.add *)

\* the job add() appends, for a callable or for a cab image
NewJob(isCallable, name, label, jtype, image_dir) ==
    LET job == StimelaJob(name, label, jtype)
    IN  IF isCallable
        THEN [python_job(job, "func") EXCEPT !.jtype = "function"]
        ELSE IF jtype = "docker" THEN docker_job(job, "cab")
        ELSE singularity_job(job, "cab", image_dir)

\* the directory the *_job methods open the log file of the job in:
\* add() gives the job log_dir = output, the argument, and the method takes
\* os.path.abspath(self.log_dir or output) with the output it resolved
LogDir(output, resolved) == AbsPath(OrElse(output, resolved))

\* add(image, name, label=..., input=..., output=..., msdir=...): for a cab
\* the name check of the *_job method, its directories (a missing output
\* directory makes os.path raise TypeError), the output directory it makes,
\* the log file it opens (IOError when the directory of the log file does
\* not exist), the image (formatting no singularity_image_dir raises
\* TypeError) and the append
AddIO(isCallable, name, label, input, output, msdir) ==
    /\ pc = "idle"
    /\ Len(jobs) < MaxJobs
    /\ LET d == JobDirs(stimela_context, input, output, OrElse(msdir, ms_dir))
           made == dirs \cup {AbsPath(d.output)}
       IN  IF isCallable
           THEN /\ jobs' = Append(jobs, NewJob(TRUE, name, label, JOB_TYPE,
                                               singularity_image_dir))
                /\ last' = Plain("add", "ok", <<>>)
                /\ UNCHANGED <<cabdef, dirs>>
           ELSE IF Offenders(name) # <<>>
           THEN /\ last' = Plain("add", "StimelaCabParameterError", name)
                /\ UNCHANGED <<jobs, cabdef, dirs>>
           ELSE IF d.output = NoDir
           THEN /\ last' = Plain("add", "TypeError", <<>>)
                /\ UNCHANGED <<jobs, cabdef, dirs>>
           ELSE IF LogDir(output, d.output) \notin made
           THEN /\ last' = Plain("add", "IOError", <<>>)
                /\ dirs' = made
                /\ UNCHANGED <<jobs, cabdef>>
           ELSE IF JOB_TYPE = "singularity" /\ singularity_image_dir = NoDir
           THEN /\ last' = Plain("add", "TypeError", <<>>)
                /\ dirs' = made
                /\ UNCHANGED <<jobs, cabdef>>
           ELSE /\ jobs' = Append(jobs, NewJob(FALSE, name, label, JOB_TYPE,
                                               singularity_image_dir))
                /\ last' = Plain("add", "ok", <<>>)
                /\ dirs' = made
                /\ cabdef' = [CabDefinition(stimela_context, JOB_TYPE, input,
                                            output, OrElse(msdir, ms_dir))
                                  EXCEPT !.msdir = msdir]
    /\ executed' = <<>>
    /\ call' = NoCall
    /\ file0' = NoFile
    /\ stopped' = <<>>
    /\ UNCHANGED <<nRuns, JOB_TYPE, singularity_image_dir, completed, failed,
                   remaining, file, pc, rjobs, idx, recipe, stimela_context,
                   held>>

\* add(image, name, label=label, output=...) of a script that passes no
\* input and no msdir
Add(isCallable, name, label) == AddIO(isCallable, name, label, NoDir, OutArg, NoDir)

----------------------------------------------------------------------------
(* Recipe.run *)

\* run(steps, resume, redo) up to the first iteration of its loop
RunCall(steps, resume, redo) ==
    /\ pc = "idle"
    /\ redo => Len(file.steps) <= MaxJobs
    /\ LET r == Resolve(steps, resume, redo, file, jobs)
       IN  /\ jobs' = r.jobs
           /\ call' = [steps |-> steps, resume |-> resume, redo |-> redo]
           /\ file0' = file
           /\ executed' = <<>>
           /\ IF r.out.type = "go"
              THEN /\ pc' = "running"
                   /\ rjobs' = r.pairs
                   /\ recipe' = r.steps
                   /\ idx' = 0
                   /\ last' = Plain("run", "running", <<>>)
              ELSE /\ last' = Plain("run", r.out.type, r.out.label)
                   /\ UNCHANGED <<pc, rjobs, recipe, idx>>
    /\ stopped' = <<>>
    /\ UNCHANGED <<JOB_TYPE, singularity_image_dir, completed, failed,
                   remaining, file, stimela_context, dirs, cabdef, held>>

\* a call of run() in a behaviour with at most MaxRuns calls
RunBegin(steps, resume, redo) ==
    /\ nRuns < MaxRuns
    /\ nRuns' = nRuns + 1
    /\ RunCall(steps, resume, redo)

\* the loop takes the job at its index and calls the job's run method
JobStart ==
    /\ pc = "running"
    /\ idx < Len(rjobs)
    /\ pc' = "job"
    /\ executed' = Append(executed, rjobs[idx + 1])
    /\ UNCHANGED <<nRuns, JOB_TYPE, singularity_image_dir, jobs, completed,
                   failed, remaining, file, rjobs, idx, recipe, call, file0,
                   last, stimela_context, dirs, cabdef, stopped, held>>

\* the job returns: it is logged as completed and the loop goes on
JobSucceeds ==
    /\ pc = "job"
    /\ recipe' = Append(recipe, StepOf(rjobs[idx + 1].job, rjobs[idx + 1].step,
                                       "completed"))
    /\ idx' = idx + 1
    /\ pc' = "running"
    /\ stopped' = Finally(stopped, rjobs[idx + 1].job, rjobs[idx + 1].step, TRUE)
    /\ UNCHANGED <<nRuns, JOB_TYPE, singularity_image_dir, jobs, completed,
                   failed, remaining, file, rjobs, executed, call, file0, last,
                   stimela_context, dirs, cabdef, held>>

\* FailRecord that logs the failed job and forgets the remaining ones
FailRecord_NoRemaining(rec, pairs, i) ==
    rec \o <<StepOf(pairs[i + 1].job, pairs[i + 1].step, "failed")>>

\* FailRecord that starts from an empty record: the entries the record holds
\* already are dropped
FailRecord_NoCarry(rec, pairs, i) ==
    <<StepOf(pairs[i + 1].job, pairs[i + 1].step, "failed")>>
        \o [k \in 1 .. (Len(pairs) - i - 1) |->
               StepOf(pairs[i + 1 + k].job, pairs[i + 1 + k].step, "remaining")]

\* the record run() writes when the job at index i (0-based) of pairs failed
FailRecord(rec, pairs, i) ==
    rec \o <<StepOf(pairs[i + 1].job, pairs[i + 1].step, "failed")>>
        \o [k \in 1 .. (Len(pairs) - i - 1) |->
               StepOf(pairs[i + 1 + k].job, pairs[i + 1 + k].step, "remaining")]

\* JobsOf that takes the slice from the start of the list
JobsOf_FromStart(pairs, a, b) == [k \in 1 .. (b - a + 1) |-> pairs[k].job]

\* [jb[1] for jb in pairs[a:b]] with 1-based inclusive bounds
JobsOf(pairs, a, b) == [k \in 1 .. (b - a + 1) |-> pairs[a + k - 1].job]

\* Assigned that writes the new lists into the list objects Recipe.completed
\* and Recipe.remaining refer to, which the exception holds too
Assigned_InPlace(exc, c, r) == [exc EXCEPT !.completed = c, !.remaining = r]

\* the exception that holds the list objects of Recipe.completed and
\* Recipe.remaining, after these attributes are assigned the new lists c and
\* r: the attributes are bound to new objects, the old ones are not written
Assigned(exc, c, r) == exc

\* the earlier exception a caller holds when a run fails: the one raised by
\* the last failure (it holds the objects Recipe.completed, Recipe.failed and
\* Recipe.remaining refer to), or h when no run of this Recipe has failed
Earlier(h, c0, f0, r0, c, r) ==
    IF f0 = None THEN h
    ELSE Assigned([exists |-> TRUE, completed |-> c0, failed |-> f0,
                   remaining |-> r0], c, r)

\* JobFails that saves the failure and goes on with the next job
JobFails_GoesOn ==
    /\ pc = "job"
    /\ completed' = JobsOf(rjobs, 1, idx)
    /\ remaining' = JobsOf(rjobs, idx + 2, Len(rjobs))
    /\ failed' = rjobs[idx + 1].job
    /\ file' = [exists |-> TRUE, steps |-> FailRecord(recipe, rjobs, idx)]
    /\ last' = Result("run", "PipelineException", rjobs[idx + 1].job.label,
                      completed', failed', remaining')
    /\ pc' = "running"
    /\ idx' = idx + 1
    /\ \E created \in BOOLEAN :
           stopped' = Finally(stopped, rjobs[idx + 1].job, rjobs[idx + 1].step,
                              created)
    /\ held' = Earlier(held, completed, failed, remaining, completed', remaining')
    /\ UNCHANGED <<nRuns, JOB_TYPE, singularity_image_dir, jobs, rjobs, recipe,
                   executed, call, file0, stimela_context, dirs, cabdef>>

\* the job raises StimelaCabRuntimeError, StimelaRecipeExecutionError or
\* StimelaCabParameterError
JobFails ==
    /\ pc = "job"
    /\ completed' = JobsOf(rjobs, 1, idx)
    /\ remaining' = JobsOf(rjobs, idx + 2, Len(rjobs))
    /\ failed' = rjobs[idx + 1].job
    /\ file' = [exists |-> TRUE, steps |-> FailRecord(recipe, rjobs, idx)]
    /\ last' = Result("run", "PipelineException", rjobs[idx + 1].job.label,
                      completed', failed', remaining')
    /\ pc' = "idle"
    /\ rjobs' = <<>>
    /\ idx' = 0
    /\ recipe' = <<>>
    /\ \E created \in BOOLEAN :
           stopped' = Finally(stopped, rjobs[idx + 1].job, rjobs[idx + 1].step,
                              created)
    /\ held' = Earlier(held, completed, failed, remaining, completed', remaining')
    /\ UNCHANGED <<nRuns, JOB_TYPE, singularity_image_dir, jobs, executed,
                   call, file0, stimela_context, dirs, cabdef>>

\* JobCrashes that saves the record as the handler of the recoverable errors
\* does, before it raises
JobCrashes_Saves ==
    /\ pc = "job"
    /\ file' = [exists |-> TRUE, steps |-> FailRecord(recipe, rjobs, idx)]
    /\ last' = Plain("run", "RuntimeError", <<>>)
    /\ pc' = "idle"
    /\ rjobs' = <<>>
    /\ idx' = 0
    /\ recipe' = <<>>
    /\ \E created \in BOOLEAN :
           stopped' = Finally(stopped, rjobs[idx + 1].job, rjobs[idx + 1].step,
                              created)
    /\ UNCHANGED <<nRuns, JOB_TYPE, singularity_image_dir, jobs, completed,
                   failed, remaining, executed, call, file0, stimela_context,
                   dirs, cabdef, held>>

\* the job raises any other error
JobCrashes ==
    /\ pc = "job"
    /\ last' = Plain("run", "RuntimeError", <<>>)
    /\ pc' = "idle"
    /\ rjobs' = <<>>
    /\ idx' = 0
    /\ recipe' = <<>>
    /\ \E created \in BOOLEAN :
           stopped' = Finally(stopped, rjobs[idx + 1].job, rjobs[idx + 1].step,
                              created)
    /\ UNCHANGED <<nRuns, JOB_TYPE, singularity_image_dir, jobs, completed,
                   failed, remaining, file, executed, call, file0,
                   stimela_context, dirs, cabdef, held>>

\* RunFinish that returns without writing the record
RunFinish_NoSave ==
    /\ pc = "running"
    /\ idx = Len(rjobs)
    /\ last' = Plain("run", "ok", <<>>)
    /\ pc' = "idle"
    /\ rjobs' = <<>>
    /\ idx' = 0
    /\ recipe' = <<>>
    /\ UNCHANGED <<nRuns, JOB_TYPE, singularity_image_dir, jobs, completed,
                   failed, remaining, file, executed, call, file0,
                   stimela_context, dirs, cabdef, stopped, held>>

\* the loop is over: run() writes the record and returns
RunFinish ==
    /\ pc = "running"
    /\ idx = Len(rjobs)
    /\ file' = [exists |-> TRUE, steps |-> recipe]
    /\ last' = Plain("run", "ok", <<>>)
    /\ pc' = "idle"
    /\ rjobs' = <<>>
    /\ idx' = 0
    /\ recipe' = <<>>
    /\ UNCHANGED <<nRuns, JOB_TYPE, singularity_image_dir, jobs, completed,
                   failed, remaining, executed, call, file0, stimela_context,
                   dirs, cabdef, stopped, held>>

\* the loop of a running run(): the job at the loop index is started, and
\* returns or raises
Loop ==
    \/ JobStart
    \/ JobSucceeds
    \/ JobFails
    \/ JobCrashes
    \/ RunFinish

\* A recipe script that is invoked again and again: each invocation builds a
\* Recipe, adds its jobs and runs all of them, from the start or resuming.
Next ==
    \/ NewRecipe
    \/ \E c \in BOOLEAN, n \in Names, l \in LabelArgs : Add(c, n, l)
    \/ \E rs \in BOOLEAN : RunBegin(NoSteps, rs, FALSE)
    \/ Loop

Spec == Init /\ [][Next]_vars

\* One Recipe of in-process callables whose caller selects the steps to run.
InitSteps == Init /\ JOB_TYPE = "docker"

NextSteps ==
    \/ \E n \in Names, l \in LabelArgs : Add(TRUE, n, l)
    \/ \E s \in StepArgs : RunBegin(s, FALSE, FALSE)
    \/ Loop

SpecSteps == InitSteps /\ [][NextSteps]_vars

\* A script that ran a selection of steps and is edited before it resumes.
NextStale ==
    \/ NewRecipe
    \/ \E n \in Names, l \in LabelArgs : Add(TRUE, n, l)
    \/ \E q \in SeqsUpTo(StepNumbers, MaxSteps) : RunBegin(IntSteps(q), FALSE, FALSE)
    \/ RunBegin(NoSteps, TRUE, FALSE)
    \/ Loop

SpecStale == InitSteps /\ [][NextStale]_vars

\* One Recipe whose caller combines steps with resume and with redo of the
\* resume file; the functions named in the file are in the caller's frame.
NextModes ==
    \/ \E c \in BOOLEAN, n \in Names, l \in LabelArgs : Add(c, n, l)
    \/ \E s \in ModeStepArgs, rs \in BOOLEAN, rd \in BOOLEAN : RunBegin(s, rs, rd)
    \/ Loop

SpecModes == Init /\ [][NextModes]_vars

\* One Recipe whose jobs are added under valid and invalid names and run.
NextNames ==
    \/ \E c \in BOOLEAN, n \in Names \cup BadNames, l \in LabelArgs : Add(c, n, l)
    \/ RunBegin(NoSteps, FALSE, FALSE)
    \/ Loop

SpecNames == Init /\ [][NextNames]_vars

\* One Recipe of cab jobs, in a script with or without _STIMELA_* globals,
\* whose adds pass or leave out the input, output and MS directories.
NextDirs ==
    \/ \E n \in Names, l \in LabelArgs, i \in DirArgs, o \in OutArgs, m \in DirArgs :
           AddIO(FALSE, n, l, i, o, m)
    \/ RunBegin(NoSteps, FALSE, FALSE)
    \/ Loop

SpecDirs == InitAny /\ [][NextDirs]_vars

\* One Recipe whose script adds its jobs, runs all of them once and from then
\* on is resumed, any number of times.
NextResume ==
    \/ /\ last.op # "run"
       /\ \E c \in BOOLEAN, n \in Names, l \in LabelArgs : Add(c, n, l)
    \/ /\ last.op # "run"
       /\ RunCall(NoSteps, FALSE, FALSE)
       /\ UNCHANGED nRuns
    \/ /\ last.op = "run"
       /\ RunCall(NoSteps, TRUE, FALSE)
       /\ UNCHANGED nRuns
    \/ Loop

SpecResume == Init /\ [][NextResume]_vars

\* One Recipe of callables that is run in full, run for one of its steps and
\* resumed, in any order and any number of times.
NextSurvive ==
    \/ /\ last.op # "run"
       /\ \E n \in Names, l \in LabelArgs : Add(TRUE, n, l)
    \/ /\ \E s \in {NoSteps} \cup {IntSteps(<<p>>) : p \in 1 .. MaxJobs}, rs \in BOOLEAN :
              RunCall(s, rs, FALSE)
       /\ UNCHANGED nRuns
    \/ Loop

SpecSurvive == InitSteps /\ [][NextSurvive]_vars

----------------------------------------------------------------------------
(* Vocabulary of the properties *)

\* the last call is a run() that has returned or raised
AfterRun == pc = "idle" /\ last.op = "run"

\* the current/last call is run() with no steps, no resume and no redo
FullRun == last.op = "run" /\ call = NoCall

\* the current/last call is run(resume=True) without redo
ResumeRun == last.op = "run" /\ call.resume /\ ~call.redo

\* the current/last call is run(steps=...) without resume and redo
StepsRun == last.op = "run" /\ ~call.resume /\ ~call.redo

\* outcomes of a run() whose loop was entered
LoopOutcomes == {"running", "ok", "PipelineException", "RuntimeError"}

\* the status a full run that fails at position k records for position i
StatusAt(i, k) ==
    IF i < k THEN "completed" ELSE IF i = k THEN "failed" ELSE "remaining"

\* the record of a run over all of js that failed at position k
FailedAt(js, k) == [i \in 1 .. Len(js) |-> StepOf(js[i], i, StatusAt(i, k))]

\* the (step, job) pairs of the positions k..n of js
PairsFrom(js, k, n) == [i \in 1 .. (n - k + 1) |-> [step |-> k + i - 1, job |-> js[k + i - 1]]]

\* L, a string without '::', is what label shows before its first '::'
Shows(label, L) ==
    \/ label = L
    \/ /\ Len(label) >= Len(L) + 2
       /\ SubSeq(label, 1, Len(L)) = L
       /\ label[Len(L) + 1] = ":"
       /\ label[Len(L) + 2] = ":"

\* some live job has the label L before any '::'
SomeJobShows(L) == \E i \in 1 .. Len(jobs) : Shows(jobs[i].label, L)

----------------------------------------------------------------------------
(* Properties *)

\* C1: when a run over all N jobs fails at position k with a recoverable
\* error, Recipe.completed and the PipelineException's completed are jobs
\* 1..k-1, failed is job k, remaining is jobs k+1..N, and the resume file
\* holds N steps numbered 1..N with status completed below k, failed at k and
\* remaining above k.
C1_FailedFullRun ==
    (AfterRun /\ FullRun /\ last.type = "PipelineException") =>
        LET k == Len(executed)
            N == Len(jobs)
        IN  /\ k \in 1 .. N
            /\ executed[k] = [step |-> k, job |-> jobs[k]]
            /\ completed = SubSeq(jobs, 1, k - 1)
            /\ last.completed = SubSeq(jobs, 1, k - 1)
            /\ failed = jobs[k]
            /\ last.failed = jobs[k]
            /\ remaining = SubSeq(jobs, k + 1, N)
            /\ last.remaining = SubSeq(jobs, k + 1, N)
            /\ file.exists
            /\ Len(file.steps) = N
            /\ \A i \in 1 .. N :
                   /\ file.steps[i].number = i
                   /\ file.steps[i].status = StatusAt(i, k)

\* a run over three jobs failed at the second
C1_Witness ==
    /\ AfterRun /\ FullRun /\ last.type = "PipelineException"
    /\ Len(jobs) = 3
    /\ Len(executed) = 2

\* C2: after a full run failed at position k, run(resume=True) on the same
\* job list, whatever the kind of its jobs, executes the jobs k..N in order
\* and none before k, and when all succeed the resume file holds N steps, all
\* completed.
C2_ResumeFromFailure ==
    \A k \in 1 .. Len(jobs) :
        (AfterRun /\ ResumeRun /\ file0.exists /\ file0.steps = FailedAt(jobs, k)) =>
            /\ last.type \in LoopOutcomes
            /\ executed = PairsFrom(jobs, k, k + Len(executed) - 1)
            /\ last.type = "ok" =>
                   /\ executed = PairsFrom(jobs, k, Len(jobs))
                   /\ Len(file.steps) = Len(jobs)
                   /\ \A i \in 1 .. Len(jobs) : file.steps[i].status = "completed"

\* C3: run(resume=True) raises StimelaRecipeExecutionError and executes no
\* job whenever a persisted step that is not completed has a label other than
\* that of the job now at its position.
C3_MismatchRaises ==
    (ResumeRun /\ file0.exists
       /\ \E i \in 1 .. Len(file0.steps) :
              /\ file0.steps[i].status # "completed"
              /\ file0.steps[i].number \in 1 .. Len(jobs)
              /\ file0.steps[i].label # jobs[file0.steps[i].number].label) =>
        /\ pc = "idle"
        /\ last.type = "StimelaRecipeExecutionError"
        /\ executed = <<>>

\* C4: run(resume=True) executes no job when the live job list differs from
\* the persisted steps: a completed position now has another label, or jobs
\* were appended after the persisted run.
C4_StaleNeverApplied ==
    (ResumeRun /\ file0.exists
       /\ \/ \E i \in 1 .. Len(file0.steps) :
                 /\ file0.steps[i].status = "completed"
                 /\ file0.steps[i].number \in 1 .. Len(jobs)
                 /\ file0.steps[i].label # jobs[file0.steps[i].number].label
          \/ /\ Len(jobs) > Len(file0.steps)
             /\ \E i \in 1 .. Len(file0.steps) : file0.steps[i].status = "failed") =>
        /\ pc = "idle"
        /\ last.type \notin LoopOutcomes
        /\ executed = <<>>

\* C5: a run without steps, resume and redo executes the jobs at positions
\* 1, 2, ... in insertion order, each once, and all N of them when none fails.
C5_FullRunOrder ==
    FullRun =>
        /\ last.type \in LoopOutcomes
        /\ Len(executed) <= Len(jobs)
        /\ executed = PairsFrom(jobs, 1, Len(executed))
        /\ last.type = "ok" => Len(executed) = Len(jobs)

\* a run over three jobs returned
C5_Witness ==
    /\ AfterRun /\ FullRun /\ last.type = "ok"
    /\ Len(jobs) = 3
    /\ Len(executed) = 3

\* C6: for a list S of integers in 1..N given as steps, run executes the jobs
\* at the positions of S, in the order and with the multiplicity of S, and no
\* other job; all of S when none fails (for the empty list, none).
C6_IntStepsOrder ==
    (StepsRun /\ call.steps.kind = "ints"
       /\ \A i \in 1 .. Len(call.steps.ints) : call.steps.ints[i] \in 1 .. Len(jobs)) =>
        LET S == call.steps.ints
        IN  /\ S # <<>> => last.type \in LoopOutcomes
            /\ Len(executed) <= Len(S)
            /\ \A i \in 1 .. Len(executed) :
                   executed[i] = [step |-> S[i], job |-> jobs[S[i]]]
            /\ last.type = "ok" => Len(executed) = Len(S)

\* run(steps=[2, 2]) on three jobs returned
C6_Witness ==
    /\ AfterRun /\ StepsRun /\ last.type = "ok"
    /\ call.steps = IntSteps(<<2, 2>>)
    /\ Len(jobs) = 3
    /\ Len(executed) = 2

\* C7: when steps lists labels and one of them is the label of no job, run
\* raises StimelaCabParameterError naming the first such label and executes
\* no job, not even those of the labels listed before it.
C7_UnknownLabel ==
    (StepsRun /\ call.steps.kind = "labels"
       /\ \E i \in 1 .. Len(call.steps.labels) : ~SomeJobShows(call.steps.labels[i])) =>
        LET L == call.steps.labels
            bad == CHOOSE i \in 1 .. Len(L) :
                       /\ ~SomeJobShows(L[i])
                       /\ \A j \in 1 .. (i - 1) : SomeJobShows(L[j])
        IN  /\ pc = "idle"
            /\ last.type = "StimelaCabParameterError"
            /\ last.label = L[bad]
            /\ executed = <<>>

\* run(steps=['B', 'A']) on jobs of which one has label B and none label A
C7_Witness ==
    /\ AfterRun /\ StepsRun
    /\ call.steps = LabelSteps(<<<<"B">>, <<"A">>>>)
    /\ SomeJobShows(<<"B">>)
    /\ ~SomeJobShows(<<"A">>)
    /\ last.type = "StimelaCabParameterError"

\* C8: run(steps=[L]) for the label L of a job executes one job, the first
\* whose label before '::' is L, whatever earlier runs left in the Recipe and
\* in the resume file.
C8_SingleLabel ==
    (StepsRun /\ call.steps.kind = "labels" /\ Len(call.steps.labels) = 1
       /\ SomeJobShows(call.steps.labels[1])) =>
        LET L == call.steps.labels[1]
            p == CHOOSE i \in 1 .. Len(jobs) :
                     /\ Shows(jobs[i].label, L)
                     /\ \A j \in 1 .. (i - 1) : ~Shows(jobs[j].label, L)
        IN  /\ last.type \in LoopOutcomes
            /\ Len(executed) <= 1
            /\ pc = "idle" => executed = <<[step |-> p, job |-> jobs[p]]>>

\* run(steps=['B']) executed the second of three jobs after a run that failed
C8_Witness ==
    /\ AfterRun /\ StepsRun /\ last.type = "ok"
    /\ call.steps = LabelSteps(<<<<"B">>>>)
    /\ Len(jobs) = 3
    /\ Len(executed) = 1
    /\ executed[1].step = 2
    /\ file0.exists
    /\ \E i \in 1 .. Len(file0.steps) : file0.steps[i].status = "failed"
    /\ failed.jtype # "None"

\* C9: run(resume=True) without a resume file raises
\* StimelaRecipeExecutionError, executes no job and writes no resume file.
C9_ResumeWithoutFile ==
    (ResumeRun /\ ~file0.exists) =>
        /\ pc = "idle"
        /\ last.type = "StimelaRecipeExecutionError"
        /\ executed = <<>>
        /\ ~file.exists

\* run(resume=True) on a Recipe with jobs and no resume file
C9_Witness ==
    /\ AfterRun /\ ResumeRun
    /\ ~file0.exists
    /\ Len(jobs) = 3

\* C10: run(resume=True) on a record whose steps are all completed executes
\* no job, leaves the resume file as it is and exits with status 0, raising
\* no error.
C10_NothingToResume ==
    (ResumeRun /\ file0.exists
       /\ \A i \in 1 .. Len(file0.steps) : file0.steps[i].status = "completed") =>
        /\ pc = "idle"
        /\ last.type = "SystemExit"
        /\ executed = <<>>
        /\ file = file0

\* run(resume=True) after a run that completed three jobs
C10_Witness ==
    /\ AfterRun /\ ResumeRun
    /\ file0.exists
    /\ Len(file0.steps) = 3
    /\ \A i \in 1 .. 3 : file0.steps[i].status = "completed"
    /\ last.type = "SystemExit"

\* the step number p is one the steps argument S of the call selects
Selects(S, p) ==
    \/ S.kind = "ints" /\ \E i \in 1 .. Len(S.ints) : S.ints[i] = p
    \/ /\ S.kind = "labels"
       /\ p \in 1 .. Len(jobs)
       /\ \E i \in 1 .. Len(S.labels) : Shows(jobs[p].label, S.labels[i])

\* C11: run(steps=S, resume=True) executes only persisted non-completed
\* steps that S selects; a non-completed step that is not in S is not
\* executed.
C11_ResumeFilter ==
    (ResumeRun /\ call.steps.kind # "none") =>
        \A i \in 1 .. Len(executed) : Selects(call.steps, executed[i].step)

\* the current/last call is run(redo=<the resume file>) on an existing file
RedoRun == last.op = "run" /\ call.redo /\ file0.exists

\* C12: run(steps=S, redo=path) executes what run(redo=path) executes: the
\* jobs rebuilt from the steps of the loaded record, each once, in record
\* order, and all of them when none fails.
C12_RedoIgnoresSteps ==
    RedoRun =>
        /\ last.type \in LoopOutcomes
        /\ Len(jobs) = Len(file0.steps)
        /\ Len(executed) <= Len(jobs)
        /\ executed = PairsFrom(jobs, 1, Len(executed))
        /\ last.type = "ok" => Len(executed) = Len(file0.steps)

\* C12 restricted to a redo without a steps argument
RedoWithoutSteps == call.steps.kind = "none" => C12_RedoIgnoresSteps

\* C13: when the running job raises an error that is none of the three
\* recoverable ones, run raises RuntimeError and no PipelineException, the
\* resume file keeps the content it had when the run started,
\* Recipe.completed, failed and remaining keep their values, and the run is
\* over without another job being started.
C13_CrashWritesNothing ==
    [][(pc = "job" /\ last'.type \notin {"running", "PipelineException"}) =>
           /\ last'.op = "run"
           /\ last'.type = "RuntimeError"
           /\ file' = file
           /\ file' = file0
           /\ completed' = completed
           /\ failed' = failed
           /\ remaining' = remaining
           /\ last'.completed = <<>>
           /\ last'.failed = None
           /\ executed' = executed
           /\ pc' = "idle"]_vars

\* the second of three jobs crashed in a run that started with a resume file
\* of an earlier failed run
C13_Witness ==
    /\ AfterRun /\ last.type = "RuntimeError"
    /\ Len(jobs) = 3
    /\ Len(executed) = 2
    /\ file0.exists
    /\ file = file0
    /\ failed.jtype # "None"

\* the last job the current/last run started
LastStarted == executed[Len(executed)]

\* C14: when the job that raised is an in-process callable, whatever the
\* error, run raises a PipelineException, Recipe.failed is that job and the
\* resume file holds the step of that job with status failed.
C14_CallableErrorIsFailure ==
    (AfterRun /\ executed # <<>> /\ LastStarted.job.jtype = "function"
       /\ last.type \in {"PipelineException", "RuntimeError"}) =>
        /\ last.type = "PipelineException"
        /\ failed = LastStarted.job
        /\ file.exists
        /\ \E i \in 1 .. Len(file.steps) :
               /\ file.steps[i].number = LastStarted.step
               /\ file.steps[i].status = "failed"

\* the integers of the steps argument of the call, if any, are positions of
\* the job list
StepsInRange ==
    call.steps.kind = "ints" =>
        \A i \in 1 .. Len(call.steps.ints) : call.steps.ints[i] \in 1 .. Len(jobs)

\* C15: a run without resume and redo starts from an empty step record and
\* logs one entry per job that returned; when all jobs returned, run returns
\* 0 and the resume file holds one entry per executed step, in execution
\* order, with the position of the step's job as its number and the status
\* completed.
C15_FreshSuccessRecord ==
    (StepsRun /\ StepsInRange) =>
        /\ pc \in {"running", "job"} => Len(recipe) = idx
        /\ (AfterRun /\ last.type = "ok") =>
               /\ file.exists
               /\ Len(file.steps) = Len(executed)
               /\ \A i \in 1 .. Len(executed) :
                      /\ file.steps[i].number = executed[i].step
                      /\ jobs[file.steps[i].number] = executed[i].job
                      /\ file.steps[i].status = "completed"

\* run(steps=[3, 1]) returned after an earlier run had left a resume file
C15_Witness ==
    /\ AfterRun /\ StepsRun /\ last.type = "ok"
    /\ call.steps = IntSteps(<<3, 1>>)
    /\ Len(file.steps) = 2
    /\ file0.exists
    /\ file0.steps # <<>>

\* C16: the job list of a Recipe is append-only: a step of add() either
\* leaves it alone or appends one job behind the jobs it holds, and a step of
\* run(), in any mode, leaves it as it is.
C16_JobsAppendOnly ==
    [][\/ jobs' = jobs
       \/ /\ last'.op = "add"
          /\ Len(jobs') = Len(jobs) + 1
          /\ SubSeq(jobs', 1, Len(jobs)) = jobs]_vars

\* C17: a call of run() that raises StimelaCabParameterError or
\* StimelaRecipeExecutionError from its step resolution has executed no job
\* and leaves the resume file, Recipe.jobs, completed, failed and remaining
\* with the values they had before the call, in every mode.
C17_ResolutionFrame ==
    [][(pc = "idle" /\ nRuns' = nRuns + 1
          /\ last'.type \in {"StimelaCabParameterError",
                             "StimelaRecipeExecutionError"}) =>
           /\ pc' = "idle"
           /\ executed' = <<>>
           /\ file' = file
           /\ jobs' = jobs
           /\ completed' = completed
           /\ failed' = failed
           /\ remaining' = remaining]_vars

\* C17 for the calls without redo
ResolutionFrameNoRedo ==
    [][(pc = "idle" /\ nRuns' = nRuns + 1 /\ ~call'.redo
          /\ last'.type \in {"StimelaCabParameterError",
                             "StimelaRecipeExecutionError"}) =>
           /\ UNCHANGED <<pc, file, jobs, completed, failed, remaining>>
           /\ executed' = <<>>]_vars

\* C18: add() appends no job, of either kind, whose name has a character
\* outside [A-Za-z0-9_]: such a call raises StimelaCabParameterError and
\* leaves Recipe.jobs as it is.
C18_BadNameRejected ==
    /\ \A i \in 1 .. Len(jobs) : \A k \in 1 .. Len(jobs[i].name) :
           jobs[i].name[k] \in WordChars
    /\ (last.op = "add" /\ last.type # "ok") =>
           last.type = "StimelaCabParameterError"

\* C18 for the jobs of a cab image only
BadCabNameRejected ==
    \A i \in 1 .. Len(jobs) :
        jobs[i].jtype # "function" => Offenders(jobs[i].name) = <<>>

\* inside a run: the jobs started so far are the first ones of the resolved
\* list, all but the one now executing have returned and are logged as
\* completed, and no job of this run has raised
OneJobAtATime ==
    pc \in {"running", "job"} =>
        /\ last.type = "running"
        /\ Len(executed) = (IF pc = "job" THEN idx + 1 ELSE idx)
        /\ Len(executed) <= Len(rjobs)
        /\ \A k \in 1 .. Len(executed) : executed[k] = rjobs[k]
        /\ Len(recipe) >= idx
        /\ \A k \in 1 .. idx :
               /\ recipe[Len(recipe) - idx + k].number = rjobs[k].step
               /\ recipe[Len(recipe) - idx + k].status = "completed"

\* a job is started only by the loop, between two jobs, as the next of the
\* resolved list
StartsInTurn ==
    (executed' # executed /\ executed' # <<>>) =>
        /\ pc = "running"
        /\ pc' = "job"
        /\ Len(executed) = idx
        /\ executed' = Append(executed, rjobs[idx + 1])

\* a job that raises ends the run
RaiseEndsRun ==
    (pc = "job" /\ last'.type # "running") => pc' = "idle"

\* C19: during a run at most one job is executing; the job at index i+1 of
\* the resolved list is started only after the job at index i has returned;
\* after a job has raised no later job of the list is started in that run.
C19_StrictlySequential ==
    /\ []OneJobAtATime
    /\ [][StartsInTurn /\ RaiseEndsRun]_vars

\* the third job of a run is executing after the first two have returned
C19_Witness ==
    /\ pc = "job"
    /\ idx = 2
    /\ Len(executed) = 3
    /\ Len(rjobs) = 3

\* C20: run(redo=path) leaves in Recipe.jobs one job per step of the loaded
\* record, in record order, each with the label of its step and, for a
\* step of a cab image, with the step's cab as its image.
C20_RedoRebuilds ==
    RedoRun =>
        /\ Len(jobs) = Len(file0.steps)
        /\ \A i \in 1 .. Len(jobs) :
               /\ jobs[i].label = file0.steps[i].label
               /\ file0.steps[i].jtype = "docker" =>
                      jobs[i].job.image = file0.steps[i].cab

\* C20 for a Recipe of the docker backend
RedoRebuildsDocker == JOB_TYPE = "docker" => C20_RedoRebuilds

\* C21: every step entry a run writes to the resume file has the jtype of
\* the job it records: the backend kind of a cab job, 'function' for a
\* callable.
C21_StepKind ==
    (AfterRun /\ FullRun /\ last.type \in {"ok", "PipelineException"}) =>
        \A i \in 1 .. Len(file.steps) :
            /\ file.steps[i].number \in 1 .. Len(jobs)
            /\ file.steps[i].jtype = jobs[file.steps[i].number].jtype

\* C21 for a Recipe of the docker backend
StepKindDocker == JOB_TYPE = "docker" => C21_StepKind

\* the last call is an add() that built a cab job
CabAdded == last.op = "add" /\ last.type = "ok" /\ cabdef # NoCab

\* C22: a cab job is built with the input, output and MS directory passed to
\* add() whenever one is passed, whatever the Recipe or the script context
\* holds for that directory; a default is used only for a directory that is
\* not passed.
C22_ExplicitDirWins ==
    CabAdded =>
        /\ cabdef.input # NoDir => cabdef.indir = cabdef.input
        /\ cabdef.output # NoDir =>
               cabdef.outdir \in {cabdef.output, "/cwd/" \o cabdef.output}
        /\ cabdef.msdir # NoDir => cabdef.msfile = cabdef.msdir
        /\ cabdef.msdir = NoDir => cabdef.msfile \in {ms_dir, stimela_context.msdir}

\* C22 in a script without _STIMELA_* globals: the argument against the
\* Recipe's ms_dir
ExplicitDirWinsNoContext == stimela_context = NoContext => C22_ExplicitDirWins

\* the step entries of the file the current/last resume started from, by
\* status: the completed ones (none for a call that is no resume), and the
\* numbers of the others
CarriedOver ==
    IF call.resume
    THEN SelectSeq(file0.steps, LAMBDA st : st.status = "completed")
    ELSE <<>>

LeftOver ==
    LET rest == SelectSeq(file0.steps, LAMBDA st : st.status # "completed")
    IN  [k \in 1 .. Len(rest) |-> rest[k].number]

\* the resolved step list of the current/last call without redo: the
\* non-completed persisted steps of a resume, else the integers given, else
\* all positions
ResolvedList ==
    IF call.resume THEN LeftOver
    ELSE IF call.steps.kind = "ints" THEN call.steps.ints
    ELSE [k \in 1 .. Len(jobs) |-> k]

\* C23: when a run over the resolved list S of positions fails at index i of
\* S, completed is the jobs of S before i, failed the job at i and remaining
\* the jobs of S after i, in the Recipe and in the PipelineException, and the
\* file holds the completed entries carried over by a resume followed by |S|
\* entries of this run: i-1 completed, one failed, the others remaining.
C23_PartitionOfResolved ==
    (AfterRun /\ last.type = "PipelineException" /\ ~call.redo
       /\ call.steps.kind # "labels"
       /\ \A k \in 1 .. Len(ResolvedList) : ResolvedList[k] \in 1 .. Len(jobs)) =>
        LET S == ResolvedList
            i == Len(executed)
            c == Len(CarriedOver)
        IN  /\ i \in 1 .. Len(S)
            /\ completed = [k \in 1 .. (i - 1) |-> jobs[S[k]]]
            /\ failed = jobs[S[i]]
            /\ remaining = [k \in 1 .. (Len(S) - i) |-> jobs[S[i + k]]]
            /\ last.completed = completed
            /\ last.failed = failed
            /\ last.remaining = remaining
            /\ Len(file.steps) = c + Len(S)
            /\ SubSeq(file.steps, 1, c) = CarriedOver
            /\ \A k \in 1 .. Len(S) :
                   /\ file.steps[c + k].number = S[k]
                   /\ file.steps[c + k].status = StatusAt(k, i)

\* run(steps=[3, 1]) on three jobs failed at its first job, that of step 3
C23_Witness ==
    /\ AfterRun /\ last.type = "PipelineException"
    /\ ~call.resume
    /\ call.steps = IntSteps(<<3, 1>>)
    /\ Len(jobs) = 3
    /\ jobs[1] # jobs[3]
    /\ Len(executed) = 1
    /\ remaining = <<jobs[1]>>

\* the number of entries of the file with the step number n
EntriesOf(n) == Cardinality({i \in 1 .. Len(file.steps) : file.steps[i].number = n})

\* the number of times the current/last run executed the step n
RunsOf(n) == Cardinality({k \in 1 .. Len(executed) : executed[k].step = n})

\* C24: after a run that returned, in any mode, every entry of the record in
\* the resume file has status completed and every executed step has one
\* entry per execution.
C24_SuccessRecordCompleted ==
    (AfterRun /\ last.type = "ok") =>
        /\ file.exists
        /\ \A i \in 1 .. Len(file.steps) : file.steps[i].status = "completed"
        /\ \A k \in 1 .. Len(executed) :
               EntriesOf(executed[k].step) = RunsOf(executed[k].step)

\* C24 for the runs without redo
SuccessRecordNoRedo == ~call.redo => C24_SuccessRecordCompleted

\* C25: the loop of run() stops a job only when the job is of the backend
\* that needs a teardown (singularity), was marked created and did not
\* finish cleanly: a stop is recorded only for the job that raised, by the
\* time the error has reached the caller, and never for a job that returned.
C25_StopOnlyAfterFailure ==
    stopped # <<>> =>
        /\ pc = "idle"
        /\ last.type \in {"PipelineException", "RuntimeError"}
        /\ stopped = <<LastStarted.step>>
        /\ LastStarted.job.jtype = "singularity"

\* the part of C25 the loop keeps: only singularity jobs are stopped, each
\* right after it ran, and a job that raised and was created is stopped by
\* the time the error has reached the caller
StopsOnlySingularity ==
    /\ \A k \in 1 .. Len(stopped) :
           \E e \in 1 .. Len(executed) :
               executed[e].step = stopped[k] /\ executed[e].job.jtype = "singularity"
    /\ Len(stopped) <= Len(executed)

\* C26: run(resume=True) raises StimelaRecipeExecutionError and executes no
\* job when a persisted step that is not completed has a number greater than
\* the number of jobs of the Recipe.
C26_ShorterListRaises ==
    (ResumeRun /\ file0.exists
       /\ \E i \in 1 .. Len(file0.steps) :
              /\ file0.steps[i].status # "completed"
              /\ file0.steps[i].number > Len(jobs)) =>
        /\ pc = "idle"
        /\ last.type = "StimelaRecipeExecutionError"
        /\ executed = <<>>

\* what run(resume=True) does keep in that case: no job is executed
ShorterListRunsNothing ==
    (ResumeRun /\ file0.exists
       /\ \E i \in 1 .. Len(file0.steps) :
              /\ file0.steps[i].status # "completed"
              /\ file0.steps[i].number > Len(jobs)) =>
        /\ pc = "idle"
        /\ last.type \in {"StimelaRecipeExecutionError", "IndexError"}
        /\ executed = <<>>

\* the number of completed entries of a record
CompletedIn(f) == Cardinality({i \in 1 .. Len(f.steps) : f.steps[i].status = "completed"})

\* the resume file, when it exists, has one entry per job, numbered 1..N in
\* this order: completed ones, then at most one failed, then remaining ones
FileShape ==
    file.exists =>
        /\ Len(file.steps) = Len(jobs)
        /\ \A i \in 1 .. Len(file.steps) : file.steps[i].number = i
        /\ \E k \in 1 .. (Len(jobs) + 1) :
               \A i \in 1 .. Len(file.steps) : file.steps[i].status = StatusAt(i, k)

\* a write of the resume file does not lose completed entries
CompletedNeverShrinks ==
    file.exists => (file'.exists /\ CompletedIn(file') >= CompletedIn(file))

\* C27: over one full run followed by any number of resumes of an unchanged
\* list of N jobs, each possibly failing, the resume file, whenever it
\* exists, holds N entries numbered 1..N in increasing order, completed ones
\* first, then at most one failed one, then remaining ones, and its block of
\* completed entries never shrinks from one write to the next.
C27_ResumeFileInvariant ==
    /\ []FileShape
    /\ [][CompletedNeverShrinks]_vars

\* a resume of three jobs that had failed at the second one failed at the
\* third one
C27_Witness ==
    /\ AfterRun /\ ResumeRun /\ last.type = "PipelineException"
    /\ Len(jobs) = 3
    /\ file0.exists
    /\ file0.steps[2].status = "failed"
    /\ file.steps[2].status = "completed"
    /\ file.steps[3].status = "failed"

\* C28: a run(steps=S) that returns after an earlier run had failed leaves
\* the failed and the remaining entries of that run in the resume file, so
\* that a later run(resume=True) finds them.
C28_ResumeInfoSurvives ==
    (AfterRun /\ StepsRun /\ call.steps.kind = "ints" /\ last.type = "ok"
       /\ file0.exists) =>
        \A i \in 1 .. Len(file0.steps) :
            file0.steps[i].status # "completed" =>
                \E j \in 1 .. Len(file.steps) :
                    /\ file.steps[j].number = file0.steps[i].number
                    /\ file.steps[j].status = file0.steps[i].status

\* C29: for integer steps a job is executed only for a position p in 1..N,
\* and it is the job added p-th; a steps list that contains a position outside
\* 1..N (0 or a number greater than N) never causes any job to be executed.
C29_OnlyPositionsRun ==
    (StepsRun /\ call.steps.kind = "ints") =>
        /\ \A i \in 1 .. Len(executed) :
               /\ executed[i].step \in 1 .. Len(jobs)
               /\ executed[i].job = jobs[executed[i].step]
        /\ (\E i \in 1 .. Len(call.steps.ints) :
                call.steps.ints[i] \notin 1 .. Len(jobs)) => executed = <<>>

\* what run(steps=S) does keep: a number greater than N raises IndexError
\* while the pairs are built, before any job is executed
BeyondEndRunsNothing ==
    (StepsRun /\ call.steps.kind = "ints"
       /\ \E i \in 1 .. Len(call.steps.ints) : call.steps.ints[i] > Len(jobs)) =>
        /\ pc = "idle"
        /\ last.type = "IndexError"
        /\ executed = <<>>

\* the attributes Recipe.completed, Recipe.failed and Recipe.remaining
RunState == <<completed, failed, remaining>>

\* C30: Recipe.completed, Recipe.failed and Recipe.remaining are [] / None /
\* [] until a run of the Recipe fails; they change only in the step in which
\* a run raises PipelineException, which carries their new values, so a run
\* that returns leaves them as they were; and the exception of an earlier
\* failure still reads the lists it was raised with after a later run failed.
C30_RunStateOnlyOnFailure ==
    /\ [](failed = None => (completed = <<>> /\ remaining = <<>> /\ held = NoExc))
    /\ [][/\ (RunState' # RunState /\ last'.op # "init") =>
                /\ pc = "job"
                /\ last'.type = "PipelineException"
                /\ last'.completed = completed'
                /\ last'.failed = failed'
                /\ last'.remaining = remaining'
          /\ (last'.op = "run" /\ last'.type # "PipelineException") =>
                RunState' = RunState
          /\ (held' # held /\ held'.exists) =>
                /\ failed # None
                /\ held' = [exists |-> TRUE, completed |-> completed,
                            failed |-> failed, remaining |-> remaining]]_vars

\* a run returned after two runs of the Recipe had failed with different
\* completed lists
C30_Witness ==
    /\ AfterRun /\ last.type = "ok"
    /\ held.exists
    /\ failed # None
    /\ held.completed # completed
    /\ executed # <<>>

====
